---- MODULE Spec2Model ----
(***************************************************************************)
(* Model of the two reader-writer lock wrappers of stratum-apps:           *)
(*   custom_rw_lock.rs          RwLock over std::sync::RwLock, with the    *)
(*                              scoped safe_read / safe_write and the      *)
(*                              explicit ReadGuard / WriteGuard            *)
(*   custom_read_write_lock.rs  RwLock over parking_lot::RwLock, closure   *)
(*                              based read(f) / write(f)                   *)
(* Threads are arbitrary clients.  A blocking call is two steps: the call  *)
(* (the thread starts waiting) and the acquisition (the call goes on).     *)
(***************************************************************************)
EXTENDS Integers, Sequences, FiniteSets

\* ------------------------------------------------------------------ bounds
NumThreads == 3
MaxGuards == 3
MaxDepth == 2

Threads == 1..NumThreads
Locks == {"A", "B"}
MaxVal == NumThreads

VARIABLES
    readers,     \* std primitive: readers[l], number of read holds
    writer,      \* std primitive: writer[l], TRUE while write-locked
    poisoned,    \* std primitive: poison flag of lock l
    value,       \* the protected value T of lock l
    writerPref,  \* std primitive's policy: a waiting writer blocks new readers
    guards,      \* the primitive guards outstanding, by slot (see NewGuard)
    last,        \* the guard the last step reclaimed, as it was reclaimed, if any
    pc,          \* per thread: "idle", "wait" (blocked in a call), "cb" (in f)
    req,         \* per thread: the call it is in, [op, lock]
    tmp,         \* per thread: the sum  *guard + 1  about to be stored, or 0
    incs,        \* per thread: the  *guard += 1  statements it completed
    aborted,     \* the process aborted (panic while panicking)
    plReaders,   \* parking_lot primitive: number of read holds
    plWriter,    \* parking_lot primitive: TRUE while write-locked
    plValue,     \* the value protected by the closure lock
    cstack,      \* per thread: the closure-lock callbacks it is inside of
    cpend,       \* per thread: closure-lock call it is blocked in, or "none"
    plPanicked   \* a callback panicked while it held the closure lock

stdVars == <<readers, writer, poisoned, value, writerPref, guards, last, pc, req, tmp, incs, aborted>>
plVars == <<plReaders, plWriter, plValue, cstack, cpend, plPanicked>>
vars == <<readers, writer, poisoned, value, writerPref, guards, last, pc, req, tmp, incs, aborted,
          plReaders, plWriter, plValue, cstack, cpend, plPanicked>>

NoReq == [op |-> "none", lock |-> "A"]

\* A slot no guard was stored in yet.
NoGuard ==
    [kind |-> "none", form |-> "none", lock |-> "A", owner |-> 0, released |-> FALSE,
     live |-> FALSE, via |-> "none", faults |-> 0]

\* RwLock::new of both wrappers: value stored, nothing held, not poisoned.
Init ==
    /\ readers = [l \in Locks |-> 0]
    /\ writer = [l \in Locks |-> FALSE]
    /\ poisoned = [l \in Locks |-> FALSE]
    /\ value = [l \in Locks |-> 0]
    /\ writerPref \in BOOLEAN
    /\ guards = [i \in 1..MaxGuards |-> NoGuard]
    /\ last = NoGuard
    /\ pc = [t \in Threads |-> "idle"]
    /\ req = [t \in Threads |-> NoReq]
    /\ tmp = [t \in Threads |-> 0]
    /\ incs = [t \in Threads |-> 0]
    /\ aborted = FALSE
    /\ plReaders = 0
    /\ plWriter = FALSE
    /\ plValue = 0
    /\ cstack = [t \in Threads |-> <<>>]
    /\ cpend = [t \in Threads |-> "none"]
    /\ plPanicked = FALSE

\* ------------------------------------------------- guards of the std lock
Ids == 1..MaxGuards
Live(i) == guards[i].live
OwnedBy(t) == {i \in Ids : Live(i) /\ guards[i].owner = t}
LiveOn(l, k) == {i \in Ids : Live(i) /\ guards[i].lock = l /\ guards[i].kind = k}
Waiting(l, o) == {t \in Threads : pc[t] = "wait" /\ req[t].lock = l /\ req[t].op \in o}

\* Faulty variant of NewGuard: the guard is built with released: true.
NewGuardReleased(k, f, l, t) ==
    [kind |-> k, form |-> f, lock |-> l, owner |-> t, released |-> (f = "Guard"),
     live |-> TRUE, via |-> "none", faults |-> 0]

\* A primitive guard (RwLockReadGuard / RwLockWriteGuard) and what holds it:
\* form "Guard": the field of a ReadGuard / WriteGuard, with its released flag;
\* form "Scoped": the local of safe_read / safe_write;
\* form "Poison": the guard carried by the PoisonError the `?` returned.
\* live: the storage is not reclaimed yet.  via and faults record how it was
\* reclaimed ("release": by release(); "scope": at the end of its scope;
\* "unwind": by the unwinding of a panic) and the panics that raised.
NewGuard(k, f, l, t) ==
    [kind |-> k, form |-> f, lock |-> l, owner |-> t, released |-> FALSE,
     live |-> TRUE, via |-> "none", faults |-> 0]

\* The slot the next guard is stored in.
Fresh == CHOOSE i \in Ids : ~Live(i) /\ \A j \in Ids : ~Live(j) => i <= j

\* ------------------------------------------------ the std::sync::RwLock
\* self.0.read() blocks while the lock is write-locked; whether a writer that
\* waits for readers to leave also blocks it is the platform's policy
\* (writerPref).
StdCanRead(l) ==
    /\ ~writer[l]
    /\ (writerPref /\ readers[l] > 0) => Waiting(l, {"write", "safe_write"}) = {}

\* self.0.write() blocks while any hold is outstanding.
StdCanWrite(l) == ~writer[l] /\ readers[l] = 0

\* The LockResult of self.0.read() / self.0.write(): the lock is taken first,
\* then the poison flag decides between Ok(guard) and Err(PoisonError(guard)).
StdLockResult(l) == IF poisoned[l] THEN "Err" ELSE "Ok"

\* Faulty variant of PoisonedAfterDrop: the primitive has no poison flag to set
\* (a non-poisoning lock in the place of std::sync::RwLock).
PoisonedAfterDropNever(g, panicking) == poisoned

\* Faulty variant of ReadersAfterDrop: dropping one read guard gives back every
\* read hold of its lock.
ReadersAfterDropAll(g) ==
    IF g.kind = "read" THEN [readers EXCEPT ![g.lock] = 0] ELSE readers

\* Faulty variant of PoisonedAfterDrop: the poison flag is one static shared by
\* all the locks.
PoisonedAfterDropShared(g, panicking) ==
    [l \in Locks |-> poisoned[l] \/ (g.kind = "write" /\ panicking)]

\* Dropping the primitive's guard g gives its hold back.  A write guard dropped
\* while its thread is panicking sets the poison flag; a read guard never does.
ReadersAfterDrop(g) ==
    IF g.kind = "read" THEN [readers EXCEPT ![g.lock] = @ - 1] ELSE readers

WriterAfterDrop(g) ==
    IF g.kind = "write" THEN [writer EXCEPT ![g.lock] = FALSE] ELSE writer

PoisonedAfterDrop(g, panicking) ==
    IF g.kind = "write" /\ panicking
    THEN [poisoned EXCEPT ![g.lock] = TRUE] ELSE poisoned

\* ------------------------------------------ ReadGuard / WriteGuard
\* Faulty variant of ReleaseStore: release() forgets to store the flag.
ReleaseStoreForgets(g) == g

\* release(self): self.released.store(true)
ReleaseStore(g) == [g EXCEPT !.released = TRUE]

\* Drop::drop of ReadGuard / WriteGuard: panic!() unless released was stored.
\* The primitive's own guards (forms "Scoped", "Poison") have no such hook.
DropPanics(g) == g.form = "Guard" /\ ~g.released

\* The storage of guard i, in state g, is reclaimed by way v: Drop::drop runs,
\* then the fields are dropped, also when Drop::drop panicked (the panic
\* unwinds through the drop glue).  unwinding: the thread already panics.
Reclaim(i, g, v, unwinding) ==
    /\ guards' = [guards EXCEPT ![i] = NoGuard]
    /\ last' = [g EXCEPT !.live = FALSE, !.via = v, !.owner = 0,
                         !.faults = @ + (IF DropPanics(g) THEN 1 ELSE 0)]
    /\ readers' = ReadersAfterDrop(g)
    /\ writer' = WriterAfterDrop(g)
    /\ poisoned' = PoisonedAfterDrop(g, unwinding \/ DropPanics(g))

\* A thread between two statements of its own code.
Ready(t) == ~aborted /\ pc[t] = "idle" /\ tmp[t] = 0

\* ------------------------------------------------ calls on the std lock
\* A thread calls read(), write(), safe_read(f) or safe_write(f) on lock l and
\* blocks in self.0.read() / self.0.write().
Call(t, o, l) ==
    /\ Ready(t)
    /\ Cardinality({i \in Ids : Live(i)})
          + Cardinality({u \in Threads : pc[u] = "wait"}) < MaxGuards
    /\ pc' = [pc EXCEPT ![t] = "wait"]
    /\ req' = [req EXCEPT ![t] = [op |-> o, lock |-> l]]
    /\ last' = NoGuard /\ UNCHANGED <<readers, writer, poisoned, value, writerPref, guards, tmp, incs, aborted>>
    /\ UNCHANGED plVars

\* Faulty variant of Read: read() calls self.0.write() where it should call
\* self.0.read(), and hands the exclusive hold out as a ReadGuard.
ReadViaWriteLock(t) ==
    LET l == req[t].lock IN
    /\ ~aborted /\ pc[t] = "wait" /\ req[t].op = "read"
    /\ StdCanWrite(l)
    /\ writer' = [writer EXCEPT ![l] = TRUE]
    /\ guards' = [guards EXCEPT ![Fresh] =
          NewGuard("read", IF StdLockResult(l) = "Ok" THEN "Guard" ELSE "Poison", l, t)]
    /\ pc' = [pc EXCEPT ![t] = "idle"]
    /\ req' = [req EXCEPT ![t] = NoReq]
    /\ last' = NoGuard /\ UNCHANGED <<readers, poisoned, value, writerPref, tmp, incs, aborted>>
    /\ UNCHANGED plVars

\* Faulty variant of Read: read() recovers the guard from the PoisonError
\* (unwrap_or_else(PoisonError::into_inner)) where it should return it with `?`.
ReadIgnoresPoison(t) ==
    LET l == req[t].lock IN
    /\ ~aborted /\ pc[t] = "wait" /\ req[t].op = "read"
    /\ StdCanRead(l)
    /\ readers' = [readers EXCEPT ![l] = @ + 1]
    /\ guards' = [guards EXCEPT ![Fresh] = NewGuard("read", "Guard", l, t)]
    /\ pc' = [pc EXCEPT ![t] = "idle"]
    /\ req' = [req EXCEPT ![t] = NoReq]
    /\ last' = NoGuard /\ UNCHANGED <<writer, poisoned, value, writerPref, tmp, incs, aborted>>
    /\ UNCHANGED plVars

\* RwLock::read: let guard = self.0.read()?; Ok(ReadGuard {guard, released: false})
Read(t) ==
    LET l == req[t].lock IN
    /\ ~aborted /\ pc[t] = "wait" /\ req[t].op = "read"
    /\ StdCanRead(l)
    /\ readers' = [readers EXCEPT ![l] = @ + 1]
    /\ guards' = [guards EXCEPT ![Fresh] =
          NewGuard("read", IF StdLockResult(l) = "Ok" THEN "Guard" ELSE "Poison", l, t)]
    /\ pc' = [pc EXCEPT ![t] = "idle"]
    /\ req' = [req EXCEPT ![t] = NoReq]
    /\ last' = NoGuard /\ UNCHANGED <<writer, poisoned, value, writerPref, tmp, incs, aborted>>
    /\ UNCHANGED plVars

\* Faulty variant of Write: write() recovers the guard from the PoisonError where it
\* should return it with `?`.
WriteIgnoresPoison(t) ==
    LET l == req[t].lock IN
    /\ ~aborted /\ pc[t] = "wait" /\ req[t].op = "write"
    /\ StdCanWrite(l)
    /\ writer' = [writer EXCEPT ![l] = TRUE]
    /\ guards' = [guards EXCEPT ![Fresh] = NewGuard("write", "Guard", l, t)]
    /\ pc' = [pc EXCEPT ![t] = "idle"]
    /\ req' = [req EXCEPT ![t] = NoReq]
    /\ last' = NoGuard /\ UNCHANGED <<readers, poisoned, value, writerPref, tmp, incs, aborted>>
    /\ UNCHANGED plVars

\* Faulty variant of Write: write() calls self.0.read() where it should call
\* self.0.write(), and hands the hold out as a WriteGuard.
WriteViaReadLock(t) ==
    LET l == req[t].lock IN
    /\ ~aborted /\ pc[t] = "wait" /\ req[t].op = "write"
    /\ ~writer[l]
    /\ readers' = [readers EXCEPT ![l] = @ + 1]
    /\ guards' = [guards EXCEPT ![Fresh] =
          NewGuard("write", IF StdLockResult(l) = "Ok" THEN "Guard" ELSE "Poison", l, t)]
    /\ pc' = [pc EXCEPT ![t] = "idle"]
    /\ req' = [req EXCEPT ![t] = NoReq]
    /\ last' = NoGuard /\ UNCHANGED <<writer, poisoned, value, writerPref, tmp, incs, aborted>>
    /\ UNCHANGED plVars

\* Faulty variant of Write: on a poisoned lock write() returns an error that
\* stands for the PoisonError but does not carry its guard (map_err), so that
\* the hold is given back before the call returns.
WriteErrWithoutGuard(t) ==
    LET l == req[t].lock IN
    /\ ~aborted /\ pc[t] = "wait" /\ req[t].op = "write"
    /\ StdCanWrite(l)
    /\ writer' = [writer EXCEPT ![l] = (StdLockResult(l) = "Ok")]
    /\ guards' = [guards EXCEPT ![Fresh] =
          NewGuard("write", IF StdLockResult(l) = "Ok" THEN "Guard" ELSE "Poison", l, t)]
    /\ pc' = [pc EXCEPT ![t] = "idle"]
    /\ req' = [req EXCEPT ![t] = NoReq]
    /\ last' = NoGuard /\ UNCHANGED <<readers, poisoned, value, writerPref, tmp, incs, aborted>>
    /\ UNCHANGED plVars

\* RwLock::write: let guard = self.0.write()?; Ok(WriteGuard {guard, released: false})
Write(t) ==
    LET l == req[t].lock IN
    /\ ~aborted /\ pc[t] = "wait" /\ req[t].op = "write"
    /\ StdCanWrite(l)
    /\ writer' = [writer EXCEPT ![l] = TRUE]
    /\ guards' = [guards EXCEPT ![Fresh] =
          NewGuard("write", IF StdLockResult(l) = "Ok" THEN "Guard" ELSE "Poison", l, t)]
    /\ pc' = [pc EXCEPT ![t] = "idle"]
    /\ req' = [req EXCEPT ![t] = NoReq]
    /\ last' = NoGuard /\ UNCHANGED <<readers, poisoned, value, writerPref, tmp, incs, aborted>>
    /\ UNCHANGED plVars

\* Faulty variant of SafeReadEnter: safe_read recovers the guard from the
\* PoisonError and runs f on a poisoned lock.
SafeReadEnterIgnoresPoison(t) ==
    LET l == req[t].lock IN
    /\ ~aborted /\ pc[t] = "wait" /\ req[t].op = "safe_read"
    /\ StdCanRead(l)
    /\ readers' = [readers EXCEPT ![l] = @ + 1]
    /\ guards' = [guards EXCEPT ![Fresh] = NewGuard("read", "Scoped", l, t)]
    /\ pc' = [pc EXCEPT ![t] = "cb"]
    /\ last' = NoGuard /\ UNCHANGED <<writer, poisoned, value, writerPref, req, tmp, incs, aborted>>
    /\ UNCHANGED plVars

\* RwLock::safe_read up to the call of f: let guard = self.0.read()?;
\* on Err the `?` returns the PoisonError, guard inside, and f never runs.
SafeReadEnter(t) ==
    LET l == req[t].lock IN
    /\ ~aborted /\ pc[t] = "wait" /\ req[t].op = "safe_read"
    /\ StdCanRead(l)
    /\ readers' = [readers EXCEPT ![l] = @ + 1]
    /\ guards' = [guards EXCEPT ![Fresh] =
          NewGuard("read", IF StdLockResult(l) = "Ok" THEN "Scoped" ELSE "Poison", l, t)]
    /\ pc' = [pc EXCEPT ![t] = IF StdLockResult(l) = "Ok" THEN "cb" ELSE "idle"]
    /\ req' = [req EXCEPT ![t] = IF StdLockResult(l) = "Ok" THEN @ ELSE NoReq]
    /\ last' = NoGuard /\ UNCHANGED <<writer, poisoned, value, writerPref, tmp, incs, aborted>>
    /\ UNCHANGED plVars

\* RwLock::safe_write up to the call of f.
SafeWriteEnter(t) ==
    LET l == req[t].lock IN
    /\ ~aborted /\ pc[t] = "wait" /\ req[t].op = "safe_write"
    /\ StdCanWrite(l)
    /\ writer' = [writer EXCEPT ![l] = TRUE]
    /\ guards' = [guards EXCEPT ![Fresh] =
          NewGuard("write", IF StdLockResult(l) = "Ok" THEN "Scoped" ELSE "Poison", l, t)]
    /\ pc' = [pc EXCEPT ![t] = IF StdLockResult(l) = "Ok" THEN "cb" ELSE "idle"]
    /\ req' = [req EXCEPT ![t] = IF StdLockResult(l) = "Ok" THEN @ ELSE NoReq]
    /\ last' = NoGuard /\ UNCHANGED <<readers, poisoned, value, writerPref, tmp, incs, aborted>>
    /\ UNCHANGED plVars

\* The guard local to the safe_read / safe_write call thread t is inside of.
ScopedOf(t) == {i \in OwnedBy(t) : guards[i].form = "Scoped"}

\* Faulty variant of SafeReturn: the call returns f's result and leaks its guard
\* (mem::forget), so the hold stays taken.
SafeReturnLeaks(t) ==
    /\ ~aborted /\ pc[t] = "cb" /\ tmp[t] = 0
    /\ \E i \in ScopedOf(t) : guards' = [guards EXCEPT ![i] = NoGuard]
    /\ pc' = [pc EXCEPT ![t] = "idle"]
    /\ req' = [req EXCEPT ![t] = NoReq]
    /\ last' = NoGuard
    /\ UNCHANGED <<readers, writer, poisoned, value, writerPref, tmp, incs, aborted>>
    /\ UNCHANGED plVars

\* safe_read / safe_write: f returned, Ok(f(..)) is returned and the local
\* guard dropped.
SafeReturn(t) ==
    /\ ~aborted /\ pc[t] = "cb" /\ tmp[t] = 0
    /\ \E i \in ScopedOf(t) : Reclaim(i, guards[i], "scope", FALSE)
    /\ pc' = [pc EXCEPT ![t] = "idle"]
    /\ req' = [req EXCEPT ![t] = NoReq]
    /\ UNCHANGED <<value, writerPref, tmp, incs, aborted>>
    /\ UNCHANGED plVars

\* safe_read / safe_write: f panicked; the local guard is dropped by the
\* unwinding.  The panic is caught above the call (catch_unwind, or the end of
\* the thread, which ThreadPanic then models).
SafePanic(t) ==
    /\ ~aborted /\ pc[t] = "cb" /\ tmp[t] = 0
    /\ \E i \in ScopedOf(t) : Reclaim(i, guards[i], "unwind", TRUE)
    /\ pc' = [pc EXCEPT ![t] = "idle"]
    /\ req' = [req EXCEPT ![t] = NoReq]
    /\ UNCHANGED <<value, writerPref, tmp, incs, aborted>>
    /\ UNCHANGED plVars

\* Faulty variant of ReadGuardRelease: release() stores the flag and forgets self
\* (mem::forget), so the primitive's guard is never dropped.
ReadGuardReleaseForgets(t, i) ==
    /\ Ready(t) /\ i \in OwnedBy(t)
    /\ guards[i].form = "Guard" /\ guards[i].kind = "read"
    /\ guards' = [guards EXCEPT ![i] = NoGuard]
    /\ last' = [ReleaseStore(guards[i]) EXCEPT !.live = FALSE, !.via = "release", !.owner = 0]
    /\ UNCHANGED <<readers, writer, poisoned, value, writerPref, pc, req, tmp, incs, aborted>>
    /\ UNCHANGED plVars

\* ReadGuard::release(self): the flag is stored, then self is dropped.
ReadGuardRelease(t, i) ==
    /\ Ready(t) /\ i \in OwnedBy(t)
    /\ guards[i].form = "Guard" /\ guards[i].kind = "read"
    /\ Reclaim(i, ReleaseStore(guards[i]), "release", FALSE)
    /\ UNCHANGED <<value, writerPref, pc, req, tmp, incs, aborted>>
    /\ UNCHANGED plVars

\* WriteGuard::release(self)
WriteGuardRelease(t, i) ==
    /\ Ready(t) /\ i \in OwnedBy(t)
    /\ guards[i].form = "Guard" /\ guards[i].kind = "write"
    /\ Reclaim(i, ReleaseStore(guards[i]), "release", FALSE)
    /\ UNCHANGED <<value, writerPref, pc, req, tmp, incs, aborted>>
    /\ UNCHANGED plVars

\* A ReadGuard goes out of scope with release() never called: Drop::drop.
ReadGuardDrop(t, i) ==
    /\ Ready(t) /\ i \in OwnedBy(t)
    /\ guards[i].form = "Guard" /\ guards[i].kind = "read"
    /\ Reclaim(i, guards[i], "scope", FALSE)
    /\ UNCHANGED <<value, writerPref, pc, req, tmp, incs, aborted>>
    /\ UNCHANGED plVars

\* A WriteGuard goes out of scope with release() never called: Drop::drop.
WriteGuardDrop(t, i) ==
    /\ Ready(t) /\ i \in OwnedBy(t)
    /\ guards[i].form = "Guard" /\ guards[i].kind = "write"
    /\ Reclaim(i, guards[i], "scope", FALSE)
    /\ UNCHANGED <<value, writerPref, pc, req, tmp, incs, aborted>>
    /\ UNCHANGED plVars

\* The caller discards the PoisonError that read() / write() / safe_read() /
\* safe_write() returned, and with it the primitive's guard.
PoisonErrorDrop(t, i) ==
    /\ Ready(t) /\ i \in OwnedBy(t)
    /\ guards[i].form = "Poison"
    /\ Reclaim(i, guards[i], "scope", FALSE)
    /\ UNCHANGED <<value, writerPref, pc, req, tmp, incs, aborted>>
    /\ UNCHANGED plVars

\* Faulty variant of Mutable: ReadGuard implements DerefMut as well.
MutableThroughRead(t, i) ==
    /\ i \in OwnedBy(t)
    /\ \/ guards[i].form \in {"Guard", "Poison"} /\ pc[t] = "idle"
       \/ guards[i].form = "Scoped" /\ pc[t] = "cb"

\* May thread t write the value through guard i now: through a WriteGuard
\* (DerefMut) or the RwLockWriteGuard of the PoisonError that write() returned,
\* between two of its statements, or inside the callback of safe_write.
Mutable(t, i) ==
    /\ i \in OwnedBy(t) /\ guards[i].kind = "write"
    /\ \/ guards[i].form \in {"Guard", "Poison"} /\ pc[t] = "idle"
       \/ guards[i].form = "Scoped" /\ pc[t] = "cb"

\* *guard += 1, first half: Deref reads the value.
Load(t, i) ==
    /\ ~aborted /\ tmp[t] = 0 /\ Mutable(t, i)
    /\ value[guards[i].lock] < MaxVal
    /\ tmp' = [tmp EXCEPT ![t] = value[guards[i].lock] + 1]
    /\ UNCHANGED incs
    /\ last' = NoGuard /\ UNCHANGED <<readers, writer, poisoned, value, writerPref, guards, pc, req, aborted>>
    /\ UNCHANGED plVars

\* *guard += 1, second half: DerefMut stores the sum.
Store(t, i) ==
    /\ ~aborted /\ tmp[t] > 0 /\ Mutable(t, i)
    /\ value' = [value EXCEPT ![guards[i].lock] = tmp[t]]
    /\ tmp' = [tmp EXCEPT ![t] = 0]
    /\ incs' = [incs EXCEPT ![t] = @ + 1]
    /\ last' = NoGuard /\ UNCHANGED <<readers, writer, poisoned, writerPref, guards, pc, req, aborted>>
    /\ UNCHANGED plVars

\* The ReadGuards / WriteGuards thread t holds unreleased.
Unreleased(t) == {i \in OwnedBy(t) : DropPanics(guards[i])}

\* A panic of thread t's own code: the unwinding drops what the thread owns.
\* A ReadGuard / WriteGuard among it panics in Drop::drop while the thread
\* panics, and the process aborts.  Otherwise the PoisonErrors it holds are
\* dropped while panicking, and the panic ends at a catch_unwind or with the
\* thread (a thread that ends is one that takes no further step).
ThreadPanic(t) ==
    /\ Ready(t)
    /\ IF Unreleased(t) # {}
       THEN /\ \E i \in Unreleased(t) :
                 /\ guards' = [guards EXCEPT ![i] = NoGuard]
                 /\ last' = [guards[i] EXCEPT !.live = FALSE, !.via = "scope", !.owner = 0,
                                              !.faults = @ + 1]
            /\ aborted' = TRUE
            /\ UNCHANGED <<readers, writer, poisoned>>
       ELSE /\ guards' = [i \in Ids |-> IF i \in OwnedBy(t) THEN NoGuard ELSE guards[i]]
            /\ readers' = [l \in Locks |->
                 readers[l] - Cardinality(OwnedBy(t) \cap LiveOn(l, "read"))]
            /\ writer' = [l \in Locks |->
                 writer[l] /\ OwnedBy(t) \cap LiveOn(l, "write") = {}]
            /\ poisoned' = [l \in Locks |->
                 poisoned[l] \/ OwnedBy(t) \cap LiveOn(l, "write") # {}]
            /\ last' = NoGuard /\ UNCHANGED <<aborted>>
    /\ UNCHANGED <<value, writerPref, pc, req, tmp, incs>>
    /\ UNCHANGED plVars

\* The locks the threads of the main specification work on.
SpecLocks == {"A"}

\* A step of a client of the explicit guards: read(), write(), release(),
\* guards and errors going out of scope, *guard += 1 on a value of 0, panics.
GuardStep(t, l) ==
    \/ \E o \in {"read", "write"} : Call(t, o, l)
    \/ Read(t)
    \/ Write(t)
    \/ \E i \in Ids : ReadGuardRelease(t, i)
    \/ \E i \in Ids : WriteGuardRelease(t, i)
    \/ \E i \in Ids : ReadGuardDrop(t, i)
    \/ \E i \in Ids : WriteGuardDrop(t, i)
    \/ \E i \in Ids : PoisonErrorDrop(t, i)
    \/ \E i \in Ids : value[guards[i].lock] = 0 /\ Load(t, i)
    \/ \E i \in Ids : Store(t, i)
    \/ ThreadPanic(t)

Next == \E t \in Threads : \E l \in SpecLocks : GuardStep(t, l)

Spec == Init /\ [][Next]_vars

\* Two lock instances, each made by RwLock::new, used by the same clients (all
\* threads but one).  Every client uses the explicit guards of lock A; the
\* first also takes WriteGuards of lock B and increments its value.  A client
\* holds one guard or PoisonError of a lock at a time.
TwoLockThreads == 1..(NumThreads - 1)

HoldsOf(t, l) == {i \in OwnedBy(t) : guards[i].lock = l}

TwoLockStep(t) ==
    \/ \E o \in {"read", "write"} : HoldsOf(t, "A") = {} /\ Call(t, o, "A")
    \/ t = 1 /\ HoldsOf(t, "B") = {} /\ Call(t, "write", "B")
    \/ Read(t)
    \/ Write(t)
    \/ \E i \in Ids : ReadGuardRelease(t, i)
    \/ \E i \in Ids : WriteGuardRelease(t, i)
    \/ \E i \in Ids : ReadGuardDrop(t, i)
    \/ \E i \in Ids : WriteGuardDrop(t, i)
    \/ \E i \in Ids : PoisonErrorDrop(t, i)
    \/ \E i \in Ids : guards[i].lock = "B" /\ incs[t] = 0 /\ value["B"] = 0 /\ Load(t, i)
    \/ \E i \in Ids : Store(t, i)
    \/ ThreadPanic(t)

NextTwoLocks == \E t \in TwoLockThreads : TwoLockStep(t)

SpecTwoLocks == Init /\ [][NextTwoLocks]_vars

\* Faulty variant of GiveUp: a guard that goes out of scope unreleased is
\* reclaimed without its field being dropped (the panic of Drop::drop skips it).
GiveUpKeepsHold(t) ==
    \E i \in Ids :
        \/ ReadGuardRelease(t, i)
        \/ WriteGuardRelease(t, i)
        \/ PoisonErrorDrop(t, i)
        \/ /\ Ready(t) /\ i \in OwnedBy(t) /\ guards[i].form = "Guard"
           /\ guards' = [guards EXCEPT ![i] = NoGuard]
           /\ last' = [guards[i] EXCEPT !.live = FALSE, !.via = "scope", !.owner = 0,
                                        !.faults = @ + 1]
           /\ UNCHANGED <<readers, writer, poisoned, value, writerPref, pc, req, tmp, incs, aborted>>
           /\ UNCHANGED plVars

\* Thread t ends the hold it has: it releases its guard, lets it go out of
\* scope unreleased, or discards the PoisonError it got.
GiveUp(t) ==
    \E i \in Ids :
        \/ ReadGuardRelease(t, i)
        \/ WriteGuardRelease(t, i)
        \/ PoisonErrorDrop(t, i)
        \/ ReadGuardDrop(t, i)
        \/ WriteGuardDrop(t, i)

\* A client that takes one hold at a time with read() / write() and ends it;
\* the clients start their calls while no hold is outstanding, so that the
\* calls left blocked wait for the holders and for nothing else.
LeakStep(t) ==
    \/ \E o \in {"read", "write"} : (\A i \in Ids : ~Live(i)) /\ Call(t, o, "A")
    \/ Read(t)
    \/ Write(t)
    \/ GiveUp(t)

NextLeak == \E t \in Threads : LeakStep(t)

\* Every holder ends its hold in the end, and the primitive is fair enough: a
\* call that can acquire again and again does acquire.
SpecLeak ==
    /\ Init /\ [][NextLeak]_vars
    /\ \A t \in Threads : WF_vars(GiveUp(t)) /\ SF_vars(Read(t)) /\ SF_vars(Write(t))

\* A step of a client of the scoped calls, who also uses read() and write().
ScopedStep(t, l) ==
    \/ \E o \in {"read", "write", "safe_read", "safe_write"} : Call(t, o, l)
    \/ Read(t)
    \/ Write(t)
    \/ SafeReadEnter(t)
    \/ SafeWriteEnter(t)
    \/ SafeReturn(t)
    \/ SafePanic(t)
    \/ \E i \in Ids : ReadGuardRelease(t, i)
    \/ \E i \in Ids : WriteGuardRelease(t, i)
    \/ \E i \in Ids : PoisonErrorDrop(t, i)
    \/ \E i \in Ids : value[guards[i].lock] = 0 /\ Load(t, i)
    \/ \E i \in Ids : Store(t, i)

\* The scoped clients are all threads but one.
ScopedThreads == 1..(NumThreads - 1)

NextScoped == \E t \in ScopedThreads : \E l \in SpecLocks : ScopedStep(t, l)

SpecScoped == Init /\ [][NextScoped]_vars

\* ------------------------------------- the closure lock over parking_lot
\* self.0.read() blocks while the lock is write-locked or a writer waits for
\* readers to leave (parking_lot's policy); self.0.write() blocks while any
\* hold is outstanding.
PlCanRead ==
    /\ ~plWriter
    /\ plReaders > 0 => \A u \in Threads : cpend[u] # "write"

PlCanWrite == ~plWriter /\ plReaders = 0

\* Dropping the guard of frame k gives its hold back; there is no poison flag.
PlReadersAfterDrop(k) == IF k = "read" THEN plReaders - 1 ELSE plReaders

PlWriterAfterDrop(k) == IF k = "write" THEN FALSE ELSE plWriter

Count(seq, k) == Cardinality({j \in DOMAIN seq : seq[j] = k})

\* Thread t calls read(f) (o = "read") or write(f), from its own code or from
\* inside a callback, and blocks in self.0.read() / self.0.write().
PlCall(t, o) ==
    /\ cpend[t] = "none" /\ Len(cstack[t]) < MaxDepth
    /\ cpend' = [cpend EXCEPT ![t] = o]
    /\ UNCHANGED <<plReaders, plWriter, plValue, cstack, plPanicked>>
    /\ UNCHANGED stdVars

\* RwLock::read(f): the read hold is taken and f starts.
PlReadEnter(t) ==
    /\ cpend[t] = "read" /\ PlCanRead
    /\ plReaders' = plReaders + 1
    /\ cstack' = [cstack EXCEPT ![t] = Append(@, "read")]
    /\ cpend' = [cpend EXCEPT ![t] = "none"]
    /\ UNCHANGED <<plWriter, plValue, plPanicked>>
    /\ UNCHANGED stdVars

\* Faulty variant of PlWriteEnter: write(f) does not wait for the readers to leave.
PlWriteEnterOverReaders(t) ==
    /\ cpend[t] = "write" /\ ~plWriter
    /\ plWriter' = TRUE
    /\ cstack' = [cstack EXCEPT ![t] = Append(@, "write")]
    /\ cpend' = [cpend EXCEPT ![t] = "none"]
    /\ UNCHANGED <<plReaders, plValue, plPanicked>>
    /\ UNCHANGED stdVars

\* RwLock::write(f): the write hold is taken and f starts.
PlWriteEnter(t) ==
    /\ cpend[t] = "write" /\ PlCanWrite
    /\ plWriter' = TRUE
    /\ cstack' = [cstack EXCEPT ![t] = Append(@, "write")]
    /\ cpend' = [cpend EXCEPT ![t] = "none"]
    /\ UNCHANGED <<plReaders, plValue, plPanicked>>
    /\ UNCHANGED stdVars

\* The innermost frame of thread t, once t is inside a callback and runs.
Top(t) == cstack[t][Len(cstack[t])]
Running(t) == cpend[t] = "none" /\ cstack[t] # <<>>

\* f of write(f) mutates the value through its &mut T.
PlMutate(t) ==
    /\ Running(t) /\ Top(t) = "write"
    /\ plValue < MaxVal
    /\ plValue' = plValue + 1
    /\ UNCHANGED <<plReaders, plWriter, cstack, cpend, plPanicked>>
    /\ UNCHANGED stdVars

\* f returned: the temporary guard of  f(&*self.0.read())  is dropped at the
\* end of the statement and f's result returned.
PlReturn(t) ==
    /\ Running(t)
    /\ plReaders' = PlReadersAfterDrop(Top(t))
    /\ plWriter' = PlWriterAfterDrop(Top(t))
    /\ cstack' = [cstack EXCEPT ![t] = SubSeq(@, 1, Len(@) - 1)]
    /\ UNCHANGED <<plValue, cpend, plPanicked>>
    /\ UNCHANGED stdVars

\* The holds after the unwinding of thread t dropped the guards of its frames.
PlReadersAfterUnwind(t) == plReaders - Count(cstack[t], "read")

PlWriterAfterUnwind(t) == plWriter /\ Count(cstack[t], "write") = 0

\* Faulty variant of PlPanic: the holds of a callback that panicked stay taken.
PlPanicKeepsHolds(t) ==
    /\ Running(t)
    /\ cstack' = [cstack EXCEPT ![t] = <<>>]
    /\ plPanicked' = TRUE
    /\ UNCHANGED <<plReaders, plWriter, plValue, cpend>>
    /\ UNCHANGED stdVars

\* f panicked: the unwinding drops the guard of every frame of the thread.
PlPanic(t) ==
    /\ Running(t)
    /\ plReaders' = PlReadersAfterUnwind(t)
    /\ plWriter' = PlWriterAfterUnwind(t)
    /\ cstack' = [cstack EXCEPT ![t] = <<>>]
    /\ plPanicked' = TRUE
    /\ UNCHANGED <<plValue, cpend>>
    /\ UNCHANGED stdVars

NextClosure ==
    \E t \in Threads :
        \/ \E o \in {"read", "write"} : PlCall(t, o)
        \/ PlReadEnter(t)
        \/ PlWriteEnter(t)
        \/ PlMutate(t)
        \/ PlReturn(t)
        \/ PlPanic(t)

SpecClosure == Init /\ [][NextClosure]_vars

\* ----------------------------------------------------- the counter run
\* Every thread runs, once:  let mut g = lock.write().unwrap(); *g += 1;
\* g.release();
CounterStep(t) ==
    \/ incs[t] = 0 /\ OwnedBy(t) = {} /\ Call(t, "write", "A")
    \/ Write(t)
    \/ \E i \in Ids : incs[t] = 0 /\ Load(t, i)
    \/ \E i \in Ids : Store(t, i)
    \/ \E i \in Ids : incs[t] = 1 /\ WriteGuardRelease(t, i)

NextCounter == \E t \in Threads : CounterStep(t)

SpecCounter == Init /\ [][NextCounter]_vars

\* Thread t ran its three statements.
CounterDone(t) == incs[t] = 1 /\ OwnedBy(t) = {} /\ pc[t] = "idle"

\* ------------------------------------------- the scoped calls of both locks
\* A step of a client that takes holds through callbacks only, one call at a
\* time: read(f) / write(f) of the closure lock, and safe_read / safe_write of
\* the std lock.
ClosureStep(t) ==
    \/ \E o \in {"read", "write"} :
          pc[t] = "idle" /\ OwnedBy(t) = {} /\ cstack[t] = <<>> /\ PlCall(t, o)
    \/ PlReadEnter(t)
    \/ PlWriteEnter(t)
    \/ plValue = 0 /\ PlMutate(t)
    \/ PlReturn(t)

CallbackStep(t, l) ==
    \/ \E o \in {"safe_read", "safe_write"} :
          cpend[t] = "none" /\ cstack[t] = <<>> /\ Call(t, o, l)
    \/ SafeReadEnter(t)
    \/ SafeWriteEnter(t)
    \/ SafeReturn(t)
    \/ SafePanic(t)
    \/ \E i \in Ids : PoisonErrorDrop(t, i)

NextCallbacks ==
    \E t \in ScopedThreads :
        \/ ClosureStep(t)
        \/ \E l \in SpecLocks : CallbackStep(t, l)

SpecCallbacks == Init /\ [][NextCallbacks]_vars

\* ================================================================ claims
\* The ReadGuards and WriteGuards outstanding on lock l.
Outstanding(l) == {i \in Ids : Live(i) /\ guards[i].form = "Guard" /\ guards[i].lock = l}

\* The primitive of lock l counts exactly the guards that are outstanding.
HoldsAccounted(l) ==
    /\ readers[l] = Cardinality(LiveOn(l, "read"))
    /\ writer[l] <=> LiveOn(l, "write") # {}
    /\ Cardinality(LiveOn(l, "write")) <= 1

\* C1: under every interleaving of read(), write() and release() on one lock,
\* no WriteGuard is outstanding together with any other ReadGuard or WriteGuard
\* of that lock.
C1_MutualExclusion ==
    \A l \in Locks : \A i, j \in Outstanding(l) :
        (i # j) => (guards[i].kind = "read" /\ guards[j].kind = "read")

\* C1's case: a WriteGuard is outstanding while a read() and a write() of other
\* threads wait for the lock.
C1_Witness ==
    /\ \E i \in Outstanding("A") : guards[i].kind = "write"
    /\ Waiting("A", {"read"}) # {}
    /\ Waiting("A", {"write"}) # {}

\* C2: a ReadGuard or WriteGuard reclaimed without release() raises the
\* unreleased-guard panic exactly once, and one reclaimed by release() raises
\* none, whatever the interleaving.
C2_LeakDetection ==
    last.form = "Guard" =>
        /\ last.via = "scope" => last.faults = 1
        /\ last.via = "release" => last.faults = 0
        /\ last.via \in {"scope", "release"}

\* C2's case: a guard went out of scope unreleased and its panic was raised,
\* with the process still running.
C2_Witness ==
    /\ last.form = "Guard" /\ last.via = "scope" /\ last.faults = 1
    /\ ~aborted

\* A call of thread t returns in this step.
Returns(t) == pc[t] = "wait" /\ pc'[t] # "wait"

\* The call that returns in this step hands its caller a PoisonError.
ReturnsPoison(t) == guards'[Fresh].form = "Poison" /\ guards'[Fresh].owner = t

\* A call that waits although nothing holds its lock can go on.
NoHang(t) ==
    (pc[t] = "wait" /\ LiveOn(req[t].lock, "read") = {} /\ LiveOn(req[t].lock, "write") = {})
    => ENABLED (Read(t) \/ Write(t))

CanAcquire(t) ==
    LET l == req[t].lock IN
    /\ (pc[t] = "wait" /\ req[t].op = "write"
            /\ LiveOn(l, "read") = {} /\ LiveOn(l, "write") = {})
        => ENABLED Write(t)
    /\ (pc[t] = "wait" /\ req[t].op = "read"
            /\ LiveOn(l, "write") = {}
            /\ (LiveOn(l, "read") = {} \/ Waiting(l, {"write"}) = {}))
        => ENABLED Read(t)

\* C4: once release() has run, the hold of the guard is no longer counted on
\* the lock, an acquirer excluded by that hold only can acquire, and the guard
\* is gone: its storage is reclaimed and no thread owns it.
C4_ReleaseTerminal ==
    (last.via = "release" /\ ~aborted) =>
        /\ ~last.live /\ last.released /\ last.owner = 0
        /\ \A i \in Ids : Live(i) => ~guards[i].released
        /\ HoldsAccounted(last.lock)
        /\ \A t \in Threads : req[t].lock = last.lock => CanAcquire(t)

\* C4's case: a WriteGuard was just released while a read() waits for the lock.
C4_Witness ==
    /\ last.via = "release" /\ last.kind = "write"
    /\ Waiting("A", {"read"}) # {}

\* C5: when every thread has run write(), *guard += 1 and release() once on a
\* value of 0, the value is the number of threads.
C5_NoLostUpdate ==
    (\A t \in Threads : CounterDone(t)) => value["A"] = NumThreads

\* C5's case: all the threads finished.
C5_Witness == \A t \in Threads : CounterDone(t)

\* The read() of thread t can return now, with a ReadGuard.
ReadSucceeds(t) == ENABLED (Read(t) /\ guards'[Fresh].form = "Guard")

\* C6, as claimed: whenever no write hold is outstanding on an unpoisoned
\* lock, a waiting read() succeeds, however many ReadGuards are outstanding.
C6_Original ==
    \A t \in Threads :
        (~aborted /\ pc[t] = "wait" /\ req[t].op = "read"
            /\ LiveOn(req[t].lock, "write") = {} /\ ~poisoned[req[t].lock])
        => ReadSucceeds(t)

\* C6, amended: whenever no write hold is outstanding on an unpoisoned lock and
\* no write() waits for it, a waiting read() succeeds, however many ReadGuards
\* are outstanding: no reader waits for a reader.
C6_ReaderConcurrency ==
    \A t \in Threads :
        (~aborted /\ pc[t] = "wait" /\ req[t].op = "read"
            /\ LiveOn(req[t].lock, "write") = {} /\ ~poisoned[req[t].lock]
            /\ Waiting(req[t].lock, {"write"}) = {})
        => ReadSucceeds(t)

\* C6's case: every thread holds a ReadGuard of the same lock at once.
C6_Witness ==
    \A t \in Threads : \E i \in Outstanding("A") :
        guards[i].owner = t /\ guards[i].kind = "read"

ReturnsGuard(t) == guards'[Fresh].form = "Guard" /\ guards'[Fresh].owner = t

PlHoldsAccounted ==
    /\ plReaders = Cardinality({tj \in Threads \X (1..MaxDepth) :
            tj[2] <= Len(cstack[tj[1]]) /\ cstack[tj[1]][tj[2]] = "read"})
    /\ plWriter <=> \E t \in Threads : Count(cstack[t], "write") > 0
    /\ Cardinality({tj \in Threads \X (1..MaxDepth) :
            tj[2] <= Len(cstack[tj[1]]) /\ cstack[tj[1]][tj[2]] = "write"}) <= 1

NestedWrite(t) ==
    /\ cpend[t] = "write"
    /\ Count(cstack[t], "read") > 0

\* C9: a write(g) called from inside the callback of the thread's own read(f)
\* on the same closure lock never completes: g never runs while the read hold
\* is outstanding, and the thread stays blocked.
C9_NestedWriteDeadlocks ==
    /\ [](\A t \in Threads : \A j, k \in DOMAIN cstack[t] :
            ~(j < k /\ cstack[t][j] = "read" /\ cstack[t][k] = "write"))
    /\ [][\A t \in Threads : NestedWrite(t) =>
            (NestedWrite(t)' /\ cstack'[t] = cstack[t])]_vars

\* C9's case: a thread is blocked in a write(g) nested in its own read(f).
C9_Witness == \E t \in Threads : NestedWrite(t)

\* A call of the closure lock that no running callback excludes can go on.
PlCanAcquire(t) ==
    /\ (cpend[t] = "write" /\ plReaders = 0 /\ ~plWriter) => ENABLED PlWriteEnter(t)
    /\ (cpend[t] = "read" /\ ~plWriter
            /\ (plReaders = 0 \/ \A u \in Threads : cpend[u] # "write"))
        => ENABLED PlReadEnter(t)

\* C10: after a callback panicked inside read(f) / write(f) its holds are
\* released, every later read / write still acquires and runs its callback,
\* and no call of the closure lock ends in anything but its callback running.
C10_NoPoisonSurfaced ==
    /\ [](plPanicked => (PlHoldsAccounted /\ \A t \in Threads : PlCanAcquire(t)))
    /\ [][\A t \in Threads : (cpend[t] # "none" /\ cpend'[t] = "none") =>
            cstack'[t] = Append(cstack[t], cpend[t])]_vars

\* C10's case: after a panic in a callback every thread, the one that
\* panicked too, acquired again and is inside a callback.
C10_Witness ==
    /\ plPanicked
    /\ \A t \in Threads : cstack[t] # <<>> /\ cpend[t] = "none"

\* C11: once the callback of a safe_write has panicked the lock is poisoned
\* for good, and every safe_read, safe_write, read and write that returns on
\* it afterwards hands its caller a PoisonError as a value: the callback is
\* not run, no ReadGuard / WriteGuard is handed out and the value is untouched.
C11_ScopedPoisonPropagation ==
    /\ [](last.form = "Scoped" /\ last.kind = "write" /\ last.via = "unwind"
            => poisoned[last.lock])
    /\ [][\A l \in Locks : poisoned[l] => poisoned'[l]]_vars
    /\ [][\A t \in Threads :
            (Returns(t) /\ poisoned[req[t].lock]) =>
                /\ pc'[t] = "idle" /\ ~aborted'
                /\ ReturnsPoison(t)
                /\ \A i \in Ids : guards'[i] # guards[i] => guards'[i].form = "Poison"
                /\ value' = value]_vars

\* C11's case: the callback of a safe_write panicked, a later call returned a
\* PoisonError that its caller still holds, and a safe_write waits behind it.
C11_Witness ==
    /\ poisoned["A"]
    /\ \E i \in Ids : Live(i) /\ guards[i].form = "Poison" /\ pc[guards[i].owner] = "idle"
    /\ Waiting("A", {"safe_write"}) # {}

\* A ReadGuard / WriteGuard record, by the state of the guard's state machine.
Acquired(g) == g.live /\ ~g.released /\ g.faults = 0 /\ g.via = "none"
Released(g) == ~g.live /\ g.released /\ g.faults = 0 /\ g.via = "release"
Faulted(g) == ~g.live /\ ~g.released /\ g.faults = 1 /\ g.via = "scope"

\* C12: a guard returned by read() / write() starts Acquired (released =
\* false); its only steps are to Released by release() and to Faulted by a
\* reclamation with released = false; both end the guard (its storage is
\* reclaimed), so the flag never goes back to false and no guard is both
\* Released and Faulted.
C12_GuardStateMachine ==
    /\ [](\A i \in Ids : guards[i].form = "Guard" => Acquired(guards[i]))
    /\ [](last.form = "Guard" =>
            /\ Released(last) \/ Faulted(last)
            /\ ~(Released(last) /\ Faulted(last)))
    /\ [][\A i \in Ids : guards[i].form = "Guard" =>
            \/ guards'[i] = guards[i]
            \/ /\ guards'[i] = NoGuard
               /\ last'.form = "Guard" /\ last'.kind = guards[i].kind
               /\ last'.lock = guards[i].lock]_vars
    /\ [][\A i \in Ids : guards[i].released => guards'[i].released]_vars

\* C12's case: a guard ended Faulted while another guard is Acquired.
C12_Witness ==
    /\ last.form = "Guard" /\ Faulted(last) /\ ~aborted
    /\ \E i \in Ids : guards[i].form = "Guard" /\ Acquired(guards[i])

\* The ReadGuards / WriteGuards on lock l whose released flag is false.
UnreleasedOn(l, k) == {i \in Outstanding(l) : guards[i].kind = k /\ ~guards[i].released}

\* C13: every live ReadGuard whose released flag is false is counted among
\* the readers of its lock's primitive, and every live WriteGuard whose flag
\* is false is the single writer of its primitive.
C13_UnreleasedGuardHolds ==
    \A l \in Locks :
        /\ UnreleasedOn(l, "read") # {} =>
              /\ ~writer[l]
              /\ readers[l] >= Cardinality(UnreleasedOn(l, "read"))
        /\ UnreleasedOn(l, "write") # {} =>
              /\ writer[l] /\ readers[l] = 0
              /\ Cardinality(LiveOn(l, "write")) = 1

\* C13's case: two ReadGuards are held unreleased at once, both counted by
\* the primitive, and a write() waits for them.
C13_Witness ==
    /\ Cardinality(UnreleasedOn("A", "read")) = 2 /\ readers["A"] = 2
    /\ Waiting("A", {"write"}) # {}

\* The step stores the value of lock l through write hold i of thread t.
StoresThrough(l, t, i) ==
    /\ LiveOn(l, "write") = {i} /\ guards[i].owner = t
    /\ writer[l] /\ readers[l] = 0 /\ LiveOn(l, "read") = {}
    /\ tmp[t] = value'[l] /\ tmp'[t] = 0
    /\ \A u \in Threads \ {t} : tmp'[u] = tmp[u]

\* C14: the value of a lock changes only in a step of the thread that owns
\* the single write hold outstanding on it; no step changes it while a
\* ReadGuard is outstanding; and a step of read(), write(), release() or of a
\* guard's reclamation (any step that moves a call or a guard) leaves it as
\* it is.
C14_ValueFrame ==
    /\ [][\A l \in Locks : value'[l] # value[l] =>
            \E t \in Threads : \E i \in Ids : StoresThrough(l, t, i)]_vars
    /\ [][\A l \in Locks :
            (\E i \in Outstanding(l) : guards[i].kind = "read") => value'[l] = value[l]]_vars
    /\ [][(guards' # guards \/ pc' # pc \/ req' # req \/ last' # NoGuard)
            => value' = value]_vars

\* C14's case: the value was stored through a WriteGuard that is still held,
\* with a read() and a write() of other threads waiting.
C14_Witness ==
    /\ value["A"] = 1
    /\ \E i \in Outstanding("A") : guards[i].kind = "write" /\ incs[guards[i].owner] = 1
    /\ Waiting("A", {"read"}) # {} /\ Waiting("A", {"write"}) # {}

\* What lock l privately owns: the state of its primitive, its value, the
\* guards outstanding on it and the calls in progress on it.
LockState(l) ==
    <<readers[l], writer[l], poisoned[l], value[l],
      [i \in Ids |-> IF Live(i) /\ guards[i].lock = l THEN guards[i] ELSE NoGuard],
      [t \in Threads |-> IF pc[t] # "idle" /\ req[t].lock = l THEN <<pc[t], req[t]>> ELSE <<>>]>>

\* The step is one on lock l: it moves a call on l or a guard of l, or a
\* thread loads or stores the value of l through its write hold.
Touches(l) ==
    \/ \E t \in Threads : pc'[t] # pc[t] /\ l \in {req[t].lock, req'[t].lock}
    \/ \E i \in Ids : guards'[i] # guards[i]
            /\ \/ Live(i) /\ guards[i].lock = l
               \/ guards'[i].live /\ guards'[i].lock = l
    \/ \E t \in Threads : \E i \in Ids :
            /\ tmp'[t] # tmp[t] /\ Mutable(t, i) /\ guards[i].lock = l
            /\ tmp'[t] = value[l] + 1 \/ tmp[t] = value'[l]

\* C15: whatever is done on one lock (calls, releases, leaked guards, panics of
\* its holders) leaves what another lock owns as it is: its poison flag, its
\* holds, its value, its guards and its waiting calls; and what a call on a
\* lock can do depends on that lock's holds only.
C15_PerLockState ==
    /\ [][\A l \in Locks : LockState(l)' # LockState(l) => Touches(l)]_vars
    /\ [][\A l, m \in Locks :
            (l # m /\ Touches(l) /\ ~Touches(m)) => LockState(m)' = LockState(m)]_vars
    /\ [](~aborted => \A t \in Threads : CanAcquire(t))

\* C15's case: lock A was poisoned by a leaked WriteGuard and PoisonErrors of
\* it are held, while lock B is not poisoned, its value was stored and a
\* WriteGuard is outstanding on it.
C15_Witness ==
    /\ poisoned["A"] /\ ~poisoned["B"] /\ ~aborted
    /\ \E i \in Ids : Live(i) /\ guards[i].form = "Poison" /\ guards[i].lock = "A"
    /\ \E i \in Outstanding("B") : guards[i].kind = "write"
    /\ value["B"] = 1 /\ value["A"] = 0

\* The holds of the primitives after the hold of guard g alone was given back.
HoldGivenBack(g) ==
    /\ \A l \in Locks :
          readers'[l] = readers[l] - (IF l = g.lock /\ g.kind = "read" THEN 1 ELSE 0)
    /\ \A l \in Locks :
          writer'[l] = (writer[l] /\ ~(l = g.lock /\ g.kind = "write"))

\* C16: a step that releases or reclaims a ReadGuard / WriteGuard changes the
\* flag and the hold of that guard only: every other outstanding guard, of the
\* same or another lock and thread, keeps its flag and its hold.
C16_FlagPrivate ==
    [][\A i \in Ids : (guards[i].form = "Guard" /\ guards'[i] # guards[i]) =>
          /\ \A j \in Ids \ {i} : guards'[j] = guards[j]
          /\ last'.form = "Guard" /\ last'.kind = guards[i].kind
          /\ last'.lock = guards[i].lock
          /\ ~aborted' => HoldGivenBack(guards[i])
          /\ aborted' => (readers' = readers /\ writer' = writer)]_vars

\* C16's case: a ReadGuard of lock A was just released while another thread
\* holds a ReadGuard of A and a WriteGuard of lock B is outstanding.
C16_Witness ==
    /\ last.form = "Guard" /\ last.via = "release" /\ last.kind = "read" /\ last.lock = "A"
    /\ \E i \in Outstanding("A") : guards[i].kind = "read" /\ ~guards[i].released
    /\ \E i \in Outstanding("B") : guards[i].kind = "write" /\ ~guards[i].released
    /\ readers["A"] = 1 /\ writer["B"]

\* A ReadGuard / WriteGuard of lock l was reclaimed unreleased by the last
\* step and its panic raised, in a process that goes on.
Leaked(l) ==
    last.form = "Guard" /\ last.lock = l /\ last.via = "scope" /\ last.faults = 1 /\ ~aborted

\* C17: when a ReadGuard / WriteGuard is reclaimed unreleased and its panic
\* raised, its hold is given back to the primitive all the same: the primitive
\* counts the outstanding guards only, a call that no outstanding hold excludes
\* can acquire, and every call blocked on that lock returns in the end.
C17_LeakGivesHoldBack ==
    /\ [](\A l \in Locks : Leaked(l) =>
            /\ HoldsAccounted(l)
            /\ \A t \in Threads : req[t].lock = l => CanAcquire(t))
    /\ \A t \in Threads :
          (Leaked("A") /\ pc[t] = "wait") ~> (pc[t] = "idle" /\ OwnedBy(t) # {})

\* C17's case: a WriteGuard was just leaked while two calls were blocked on
\* its lock.
C17_Witness ==
    /\ Leaked("A") /\ last.kind = "write"
    /\ Cardinality(Waiting("A", {"read", "write"})) = 2

\* C18: the panic that Drop raises for a WriteGuard leaked by a thread that is
\* not panicking already poisons the lock: from then on no ReadGuard or
\* WriteGuard of that lock is handed out, a call on it that returns returns a
\* PoisonError, and it is not kept waiting by the poison.
C18_LeakPoisons ==
    \A l \in Locks :
        /\ (Leaked(l) /\ last.kind = "write") => (poisoned[l] /\ ~writer[l])
        /\ (poisoned[l] /\ ~aborted) =>
              /\ Outstanding(l) = {}
              /\ \A i \in LiveOn(l, "read") \cup LiveOn(l, "write") : guards[i].form = "Poison"
              /\ \A t \in Threads : req[t].lock = l => CanAcquire(t)

\* C18's case: after a WriteGuard was leaked, a later write() returned a
\* PoisonError, which its caller holds, and a read() waits behind it.
C18_Witness ==
    /\ poisoned["A"] /\ ~aborted
    /\ \E i \in LiveOn("A", "write") : guards[i].form = "Poison"
    /\ Waiting("A", {"read"}) # {}

\* The PoisonErrors of lock l that are alive, by the kind of the call that
\* returned them.
FaultsOn(l, k) == {i \in LiveOn(l, k) : guards[i].form = "Poison"}

\* C19: the PoisonError returned by read() / write() carries a real hold.
\* While the one returned by write() is alive it is the only hold of its lock
\* and no call of another thread can acquire; the one returned by read() is
\* counted among the readers; no write hold, carried by a guard or by a
\* PoisonError, is outstanding beside any other hold; and discarding a
\* PoisonError gives its hold back and raises no panic.
C19_FaultCarriesHold ==
    /\ \A l \in Locks :
          /\ \A i \in FaultsOn(l, "write") :
                /\ writer[l] /\ readers[l] = 0
                /\ LiveOn(l, "write") = {i} /\ LiveOn(l, "read") = {}
                /\ \A t \in Threads \ {guards[i].owner} :
                      req[t].lock = l => (~ENABLED Read(t) /\ ~ENABLED Write(t))
          /\ FaultsOn(l, "read") # {} =>
                /\ ~writer[l] /\ LiveOn(l, "write") = {}
                /\ readers[l] >= Cardinality(FaultsOn(l, "read"))
          /\ \A i, j \in LiveOn(l, "read") \cup LiveOn(l, "write") :
                (i # j) => (guards[i].kind = "read" /\ guards[j].kind = "read")
    /\ last.form = "Poison" =>
          /\ last.faults = 0 /\ ~last.live /\ ~aborted
          /\ HoldsAccounted(last.lock)
          /\ \A t \in Threads : req[t].lock = last.lock => CanAcquire(t)

\* C19's case: the PoisonError of a write() was discarded while the calls of
\* two other threads were blocked by its hold, which is given back.
C19_Witness ==
    /\ last.form = "Poison" /\ last.kind = "write" /\ ~writer["A"]
    /\ Cardinality(Waiting("A", {"read", "write"})) = 2

====
